---- MODULE Spec2Model ----
(***************************************************************************)
(* Model of server/helper/LocationHelper.ts: the per-node cache of the     *)
(* last two locations (lastLocationsMap), the single-location assigner     *)
(* setVisualArea and the batch assigner setVisualAreas.                    *)
(*                                                                         *)
(* Execution model: one JavaScript event loop.  A call runs synchronously  *)
(* up to its next await.  A continuation whose awaited promise is settled  *)
(* is a microtask; the order of the runnable microtasks of different calls *)
(* depends on the number of ticks each await takes and is left open.  A    *)
(* response of the store (fetch, persist, bulk) is a macrotask and is      *)
(* delivered only when no microtask is runnable.                           *)
(***************************************************************************)
EXTENDS Integers, Sequences, FiniteSets, TLC

\* ---------------------------------------------------------------- bounds
NumLocs == 5
MaxCalls == 2

\* ------------------------------------------------------------- constants
\* the first index of the batch walk, `for (let i = 3; ...`
FirstFoldIndex == 3
\* `locations.slice(-2)`
SeedSliceLen == 2

\* ------------------------------------------------------------ data model
Locs == 1..NumLocs
Nodes == {"X", "Y"}
Calls == 1..MaxCalls

\* LocationDocument.node and LocationDocument.timestamp of location l: the
\* last location is the only one of node Y, the others are X's timeline
NodeOf(l) == IF l < NumLocs THEN "X" ELSE "Y"
Timestamp(l) == l

\* the value `undefined` of a tail, and a location that has no visualArea
Undefined == <<>>
Unscored == <<>>
\* Number.POSITIVE_INFINITY
POSITIVE_INFINITY == <<0, 0, 0>>

\* ------------------------------------------------------- pure functions
Min2(a, b) == IF a <= b THEN a ELSE b
Max2(a, b) == IF a >= b THEN a ELSE b

\* turf.area(turf.polygon([[a, b, c, a]])): the area of the triangle with
\* the vertices a, b, c.  The area does not depend on the order of the
\* vertices, so it is represented by the vertices in ascending order.
turfArea(a, b, c) ==
    LET lo == Min2(a, Min2(b, c))
        hi == Max2(a, Max2(b, c))
    IN  <<lo, a + b + c - lo - hi, hi>>

\* Array.prototype.sort with (l1, l2) => l2.timestamp - l1.timestamp:
\* a stable insertion of each element after the elements that are not older
RECURSIVE InsertDescending(_, _)
InsertDescending(l, s) ==
    IF s = <<>> THEN <<l>>
    ELSE IF Timestamp(Head(s)) >= Timestamp(l)
         THEN <<Head(s)>> \o InsertDescending(l, Tail(s))
         ELSE <<l>> \o s

RECURSIVE sortByTimestampDescending(_)
sortByTimestampDescending(s) ==
    IF s = <<>> THEN <<>>
    ELSE LET n == Len(s)
         IN  InsertDescending(s[n], sortByTimestampDescending(SubSeq(s, 1, n - 1)))

\* JavaScript's 0-based locations[i]
At(s, i) == s[i + 1]

\* locations.slice(-k): the last k elements (all of them when fewer)
SliceLast(s, k) == SubSeq(s, Max2(1, Len(s) - k + 1), Len(s))

\* (a variant that makes a pair of a single location)
getLastLocationsPadded(locations) ==
    LET sorted == sortByTimestampDescending(locations)
    IN  IF Len(sorted) > 1 THEN <<At(sorted, 1), At(sorted, 0)>>
        ELSE IF Len(sorted) = 1 THEN <<At(sorted, 0), At(sorted, 0)>>
        ELSE Undefined

\* getLastLocations: [l0, l1] = [sorted[1], sorted[0]], or undefined
getLastLocations(locations) ==
    LET sorted == sortByTimestampDescending(locations)
    IN  IF Len(sorted) > 1 THEN <<At(sorted, 1), At(sorted, 0)>> ELSE Undefined

\* ------------------------------------------------------------- promises
\* A promise is the load of a node's tail from the store (its state is
\* loads[id]), a resolved value (Promise.resolve) or the promise that
\* addLocation chains on the entry it finds (parent.then(...)).
Absent == [kind |-> "absent"]
LoadPromise(k) == [kind |-> "load", id |-> k]
ResolvedPromise(v) == [kind |-> "value", val |-> v]
ChainPromise(parent, l) == [kind |-> "chain", parent |-> parent, loc |-> l]

VARIABLES
    lastLocationsMap,   \* node -> promise of the node's tail, or Absent
    loads,              \* the store fetches issued so far, in order
    call,               \* the state of each call of setVisualArea(s)
    visualArea,         \* the store: location -> persisted visualArea
    memVisualArea,      \* location.visualArea of the in-memory documents
    version             \* node -> number of replacements of its map entry

vars == <<lastLocationsMap, loads, call, visualArea, memVisualArea, version>>

Pending == [st |-> "pending", val |-> Undefined, err |-> ""]
Fulfilled(v) == [st |-> "ok", val |-> v, err |-> ""]
Rejected(e) == [st |-> "err", val |-> Undefined, err |-> e]

\* (a variant that keeps the older location of the tail instead of the newer)
addLocationThenKeepOlder(lastLocations, location) ==
    IF lastLocations = Undefined
    THEN Rejected("TypeError")
    ELSE Fulfilled(<<At(lastLocations, 0), location>>)

\* (a variant whose result is a promise that is never settled)
addLocationThenNeverSettles(lastLocations, location) == Pending

\* the callback of addLocation: [lastLocations[1], location]; reading [1] of
\* undefined throws
addLocationThen(lastLocations, location) ==
    IF lastLocations = Undefined
    THEN Rejected("TypeError")
    ELSE Fulfilled(<<At(lastLocations, 1), location>>)

\* the state of promise p and, when it is settled, its value or error
RECURSIVE Outcome(_)
Outcome(p) ==
    CASE p.kind = "load"  -> loads[p.id].outcome
      [] p.kind = "value" -> Fulfilled(p.val)
      [] p.kind = "chain" ->
            LET o == Outcome(p.parent)
            IN  IF o.st = "ok" THEN addLocationThen(o.val, p.loc) ELSE o

Settled(p) == Outcome(p).st # "pending"

Runnable(c) ==
    \/ call[c].pc \in {"awaitArea", "fold"} /\ Settled(call[c].p)
    \/ call[c].pc = "seed"

\* the store's responses are macrotasks: none runs while a microtask is ready
NoMicrotask == \A c \in Calls : ~Runnable(c)

\* --------------------------------------------------------- the tail cache
\* (a variant that does not keep the promise of the fetch in the map)
getLastLocationsCachedNoMemo(m, ld, node) ==
    IF m[node].kind = "absent"
    THEN [map   |-> m,
          loads |-> Append(ld, [node |-> node, outcome |-> Pending]),
          p     |-> LoadPromise(Len(ld) + 1)]
    ELSE [map |-> m, loads |-> ld, p |-> m[node]]

\* (a variant that fetches again when the entry is a failed fetch)
getLastLocationsCachedRetry(m, ld, node) ==
    IF (IF m[node].kind = "absent" THEN TRUE ELSE Outcome(m[node]).st = "err")
    THEN LET lastLocations == LoadPromise(Len(ld) + 1)
         IN  [map   |-> [m EXCEPT ![node] = lastLocations],
              loads |-> Append(ld, [node |-> node, outcome |-> Pending]),
              p     |-> lastLocations]
    ELSE [map |-> m, loads |-> ld, p |-> m[node]]

\* getLastLocationsCached(node) on map m and fetches ld: the entry of the
\* node, which a first call installs as the promise of a new store fetch
getLastLocationsCached(m, ld, node) ==
    IF m[node].kind = "absent"
    THEN LET lastLocations == LoadPromise(Len(ld) + 1)
         IN  [map   |-> [m EXCEPT ![node] = lastLocations],
              loads |-> Append(ld, [node |-> node, outcome |-> Pending]),
              p     |-> lastLocations]
    ELSE [map |-> m, loads |-> ld, p |-> m[node]]

\* (a variant that installs the new tail under every key of the map)
addLocationAllKeys(m, ld, location) ==
    LET r == getLastLocationsCached(m, ld, NodeOf(location))
    IN  [map   |-> [n \in Nodes |-> ChainPromise(r.p, location)],
         loads |-> r.loads]

\* addLocation(location): chain the new tail on the entry found and install it
addLocation(m, ld, location) ==
    LET r == getLastLocationsCached(m, ld, NodeOf(location))
    IN  [map   |-> [r.map EXCEPT ![NodeOf(location)] = ChainPromise(r.p, location)],
         loads |-> r.loads]

\* (a variant that computes a triangle where no tail is known)
calculateVisualAreaThenNoSentinel(lastLocations, location) ==
    IF lastLocations # Undefined
    THEN turfArea(At(lastLocations, 0), At(lastLocations, 1), location)
    ELSE turfArea(location, location, location)

\* the callback of calculateVisualArea, applied to the tail it is given
calculateVisualAreaThen(lastLocations, location) ==
    IF lastLocations # Undefined
    THEN turfArea(At(lastLocations, 0), At(lastLocations, 1), location)
    ELSE POSITIVE_INFINITY

\* ------------------------------------------------------------ the store
\* Location.getLocationsInNodeByTimestampDescending(node, 1, 2): at most two
\* locations of the node, newest first.  The store holds the oldest
\* locations of each node: none, the first, or the first two.
OwnLocs(node) == {l \in Locs : NodeOf(l) = node}
StoreResults(node) ==
    LET own == OwnLocs(node)
        Rank(l) == Cardinality({o \in own : Timestamp(o) < Timestamp(l)})
        first == {l \in own : Rank(l) = 0}
        second == {l \in own : Rank(l) = 1}
    IN  {<<>>} \cup {<<l>> : l \in first} \cup {<<n, o>> : n \in second, o \in first}

\* ---------------------------------------------------------------- calls
IdleCall ==
    [kind |-> "none", pc |-> "idle", loc |-> 0, batch |-> <<>>,
     groups |-> <<>>, g |-> 0, locations |-> <<>>, i |-> 0,
     p |-> Absent, area |-> Unscored, target |-> 0, bulk |-> <<>>, err |-> "",
     tail1 |-> Undefined, ver1 |-> 0, tail2 |-> Undefined,
     seeded |-> <<>>, ret |-> <<>>]

Init ==
    /\ lastLocationsMap = [n \in Nodes |-> Absent]
    /\ loads = <<>>
    /\ call = [c \in Calls |-> IdleCall]
    /\ visualArea = [l \in Locs |-> Unscored]
    /\ memVisualArea = [l \in Locs |-> Unscored]
    /\ version = [n \in Nodes |-> 0]

\* calls are issued in the order of their slots
CanIssue(c) == call[c].pc = "idle" /\ \A d \in Calls : d < c => call[d].pc # "idle"

Fail(c, e) == [call EXCEPT ![c].pc = "failed", ![c].err = e, ![c].p = Absent]

\* ----------------------------------------------------- setVisualArea
\* setVisualArea(location) up to its first await: calculateVisualArea reads
\* the node's entry
IssueOne(c, l) ==
    /\ CanIssue(c)
    /\ LET r == getLastLocationsCached(lastLocationsMap, loads, NodeOf(l))
       IN  /\ lastLocationsMap' = r.map
           /\ loads' = r.loads
           /\ call' = [call EXCEPT ![c].kind = "one", ![c].pc = "awaitArea",
                                   ![c].loc = l, ![c].p = r.p,
                                   ![c].ver1 = version[NodeOf(l)]]
    /\ UNCHANGED <<visualArea, memVisualArea, version>>

\* The area is known; setVisualArea reads the node's entry a second time and
\* awaits it.  The entry read here is settled whenever the first one is (an
\* entry is never removed, and a fetch is pending only as a node's first
\* entry), so the continuation follows with no other step of the program
\* that it could observe in between: lastLocations[1] is read and
\* Location.setLocationVisualArea(area)(lastLocations[1]) is issued.
ResumeArea(c) ==
    /\ call[c].pc = "awaitArea"
    /\ Settled(call[c].p)
    /\ LET o == Outcome(call[c].p)
           r == getLastLocationsCached(lastLocationsMap, loads, NodeOf(call[c].loc))
           lastLocations == Outcome(r.p)
           withArea == [call[c] EXCEPT !.area = calculateVisualAreaThen(o.val, call[c].loc),
                                       !.tail1 = o.val]
       IN  IF o.st = "err"
           THEN /\ call' = Fail(c, o.err)
                /\ UNCHANGED <<lastLocationsMap, loads>>
           ELSE /\ Settled(r.p)
                /\ lastLocationsMap' = r.map
                /\ loads' = r.loads
                /\ call' = [call EXCEPT ![c] =
                       IF lastLocations.st = "err"
                       THEN [withArea EXCEPT !.pc = "failed", !.err = lastLocations.err,
                                             !.p = Absent]
                       ELSE IF lastLocations.val = Undefined
                       THEN [withArea EXCEPT !.pc = "failed", !.err = "TypeError",
                                             !.p = Absent]
                       ELSE [withArea EXCEPT !.pc = "awaitPersist", !.p = Absent,
                                             !.tail2 = lastLocations.val,
                                             !.target = At(lastLocations.val, 1)]]
    /\ UNCHANGED <<visualArea, memVisualArea, version>>

\* (a variant that folds the location in whether or not the persist succeeded)
PersistRespondSpeculative(c, ok) ==
    /\ call[c].pc = "awaitPersist"
    /\ NoMicrotask
    /\ LET node == NodeOf(call[c].loc)
           r == addLocation(lastLocationsMap, loads, call[c].loc)
       IN  /\ lastLocationsMap' = r.map
           /\ loads' = r.loads
           /\ version' = [version EXCEPT ![node] = @ + 1]
           /\ IF ok
              THEN /\ visualArea' = [visualArea EXCEPT ![call[c].target] = call[c].area]
                   /\ call' = [call EXCEPT ![c].pc = "done",
                                           ![c].p = Absent, ![c].ret = <<call[c].loc>>]
              ELSE /\ call' = Fail(c, "StoreUnavailable")
                   /\ UNCHANGED visualArea
    /\ UNCHANGED memVisualArea

\* the store answers the persist of the score; on success the call goes
\* on (no other task runs between the answer and the continuation) with
\* addLocation(location) and returns location
PersistRespond(c, ok) ==
    /\ call[c].pc = "awaitPersist"
    /\ NoMicrotask
    /\ IF ok
       THEN LET node == NodeOf(call[c].loc)
                r == addLocation(lastLocationsMap, loads, call[c].loc)
            IN  /\ visualArea' = [visualArea EXCEPT ![call[c].target] = call[c].area]
                /\ lastLocationsMap' = r.map
                /\ loads' = r.loads
                /\ version' = [version EXCEPT ![node] = @ + 1]
                /\ call' = [call EXCEPT ![c].pc = "done",
                                        ![c].p = Absent, ![c].ret = <<call[c].loc>>]
       ELSE /\ call' = Fail(c, "StoreUnavailable")
            /\ UNCHANGED <<visualArea, lastLocationsMap, loads, version>>
    /\ UNCHANGED memVisualArea

\* the store answers fetch k: .then(getLastLocations), or a failure
FetchRespond(k, ok) ==
    /\ loads[k].outcome.st = "pending"
    /\ NoMicrotask
    /\ \E result \in (IF ok THEN StoreResults(loads[k].node) ELSE {<<>>}) :
          loads' = [loads EXCEPT ![k].outcome =
                        IF ok THEN Fulfilled(getLastLocations(result))
                        ELSE Rejected("StoreUnavailable")]
    /\ UNCHANGED <<lastLocationsMap, call, visualArea, memVisualArea, version>>

\* ----------------------------------------------------- setVisualAreas
\* nodeToLocationMap.values(): the locations of each node, the nodes in the
\* order of their first location in the input
RECURSIVE GroupByNode(_, _)
GroupByNode(locations, groups) ==
    IF locations = <<>> THEN groups
    ELSE LET location == Head(locations)
             hit == {k \in 1..Len(groups) : NodeOf(groups[k][1]) = NodeOf(location)}
         IN  GroupByNode(Tail(locations),
                 IF hit = {} THEN Append(groups, <<location>>)
                 ELSE LET k == CHOOSE k \in hit : TRUE
                      IN  [groups EXCEPT ![k] = Append(@, location)])

\* the inputs of setVisualAreas: the locations 1..hi, oldest first
Range(lo, hi) == [k \in 1..(hi - lo + 1) |-> lo + k - 1]
Batches == {Range(1, hi) : hi \in Locs}

\* the seed tail of a node's sorted locations
SeedTail(locations) == getLastLocations(SliceLast(locations, SeedSliceLen))

\* (a variant that executes the bulk after the walk of each node)
NextGroupExecuteEach(cl) == [cl EXCEPT !.pc = "awaitBulk", !.p = Absent]

\* after the walk of group cl.g (on map m, fetches ld): the next group is
\* sorted and its seed awaited, or the bulk is executed
NextGroup(cl) ==
    IF cl.g < Len(cl.groups)
    THEN [cl EXCEPT !.g = cl.g + 1, !.pc = "seed", !.p = Absent,
                    !.locations = sortByTimestampDescending(cl.groups[cl.g + 1])]
    ELSE [cl EXCEPT !.pc = "awaitBulk", !.p = Absent]

\* the head of `for (let i = ...; i < locations.length; i++)` with index i:
\* calculateVisualArea(locations[i]) reads the node's entry, or the walk ends
LoopHead(cl, i, m, ld) ==
    IF i < Len(cl.locations)
    THEN LET r == getLastLocationsCached(m, ld, NodeOf(At(cl.locations, i)))
         IN  [call  |-> [cl EXCEPT !.pc = "fold", !.i = i, !.p = r.p],
              map   |-> r.map,
              loads |-> r.loads]
    ELSE [call |-> NextGroup(cl), map |-> m, loads |-> ld]

\* The seed tail of the current node is installed and the walk of the
\* node's locations starts: the effect on call record cl
Seed(c, cl) ==
    LET lastLocations == SeedTail(cl.locations)
    IN  IF lastLocations = Undefined
        THEN /\ call' = [call EXCEPT ![c] = [cl EXCEPT !.pc = "failed", !.err = "TypeError",
                                                       !.p = Absent]]
             /\ UNCHANGED <<lastLocationsMap, loads, version>>
        ELSE LET node == NodeOf(At(lastLocations, 1))
                 m == [lastLocationsMap EXCEPT ![node] = ResolvedPromise(lastLocations)]
                 r == LoopHead([cl EXCEPT !.seeded = Append(@, lastLocations)],
                               FirstFoldIndex, m, loads)
             IN  /\ call' = [call EXCEPT ![c] = r.call]
                 /\ lastLocationsMap' = r.map
                 /\ loads' = r.loads
                 /\ version' = [version EXCEPT ![node] = @ + 1]

\* setVisualAreas(locations): the input is grouped, the first node's
\* locations are sorted and their seed tail awaited; the grouping and the
\* sort touch nothing shared, so the call's first step that the program can
\* observe is the one after that await, which installs the seed
IssueMany(c, b) ==
    /\ CanIssue(c)
    /\ LET groups == GroupByNode(b, <<>>)
       IN  Seed(c, [call[c] EXCEPT !.kind = "many", !.pc = "seed", !.batch = b,
                                   !.groups = groups, !.g = 1,
                                   !.locations = sortByTimestampDescending(groups[1])])
    /\ UNCHANGED <<visualArea, memVisualArea>>

\* the seed tail of a later node is installed and its walk starts
SeedStep(c) ==
    /\ call[c].pc = "seed"
    /\ Seed(c, call[c])
    /\ UNCHANGED <<visualArea, memVisualArea>>

\* (a variant that scores locations[i] itself)
ScoredIndexSelf(i) == i

\* the index of the location that receives the area computed for locations[i]
ScoredIndex(i) == i - 1

\* one turn of the walk: the area goes to locations[i-1], locations[i] is folded
FoldStep(c) ==
    /\ call[c].pc = "fold"
    /\ Settled(call[c].p)
    /\ LET o == Outcome(call[c].p)
           i == call[c].i
           location == At(call[c].locations, i)
           scored == At(call[c].locations, ScoredIndex(i))
           area == calculateVisualAreaThen(o.val, location)
           a == addLocation(lastLocationsMap, loads, location)
           r == LoopHead([call[c] EXCEPT !.bulk = Append(@, [loc |-> scored, area |-> area,
                                                               from |-> o.val,
                                                               new |-> location])],
                         i + 1, a.map, a.loads)
       IN  IF o.st = "err"
           THEN /\ call' = Fail(c, o.err)
                /\ UNCHANGED <<lastLocationsMap, loads, memVisualArea, version>>
           ELSE /\ memVisualArea' = [memVisualArea EXCEPT ![scored] = area]
                /\ call' = [call EXCEPT ![c] = r.call]
                /\ lastLocationsMap' = r.map
                /\ loads' = r.loads
                /\ version' = [version EXCEPT ![NodeOf(location)] = @ + 1]
    /\ UNCHANGED visualArea

\* the updates of a bulk applied to the store (an entry's `from` and `new`
\* are the tail and the location its area was computed from, kept for the
\* record)
RECURSIVE ApplyBulk(_, _)
ApplyBulk(bulk, va) ==
    IF bulk = <<>> THEN va
    ELSE ApplyBulk(Tail(bulk), [va EXCEPT ![Head(bulk).loc] = Head(bulk).area])

\* the store answers bulk.execute(); then(() => locations)
BulkRespond(c, ok) ==
    /\ call[c].pc = "awaitBulk"
    /\ NoMicrotask
    /\ IF ok
       THEN /\ visualArea' = ApplyBulk(call[c].bulk, visualArea)
            /\ call' = [call EXCEPT ![c].pc = "done", ![c].ret = call[c].batch]
       ELSE /\ call' = Fail(c, "StoreUnavailable")
            /\ UNCHANGED visualArea
    /\ UNCHANGED <<lastLocationsMap, loads, memVisualArea, version>>

\* ------------------------------------------------------- specification
Next ==
    \/ \E c \in Calls, l \in Locs : IssueOne(c, l)
    \/ \E c \in Calls : ResumeArea(c)
    \/ \E c \in Calls, ok \in BOOLEAN : PersistRespond(c, ok)
    \/ \E k \in 1..Len(loads), ok \in BOOLEAN : FetchRespond(k, ok)
    \/ \E c \in Calls, b \in Batches : IssueMany(c, b)
    \/ \E c \in Calls : SeedStep(c)
    \/ \E c \in Calls : FoldStep(c)
    \/ \E c \in Calls, ok \in BOOLEAN : BulkRespond(c, ok)

Spec == Init /\ [][Next]_vars

\* The state after setVisualAreas of X's two oldest locations has completed:
\* X's entry is the resolved seed tail.
WarmTail == SeedTail(sortByTimestampDescending(Range(1, SeedSliceLen)))
InitWarm ==
    /\ lastLocationsMap = [n \in Nodes |->
           IF n = "X" THEN ResolvedPromise(WarmTail) ELSE Absent]
    /\ loads = <<>>
    /\ call = [c \in Calls |-> IdleCall]
    /\ visualArea = [l \in Locs |-> Unscored]
    /\ memVisualArea = [l \in Locs |-> Unscored]
    /\ version = [n \in Nodes |-> IF n = "X" THEN 1 ELSE 0]

SpecWarm == InitWarm /\ [][Next]_vars

\* The event loop runs every ready continuation, and the store answers every
\* fetch, persist and bulk.
Fairness ==
    /\ \A c \in Calls :
          /\ WF_vars(ResumeArea(c))
          /\ WF_vars(SeedStep(c))
          /\ WF_vars(FoldStep(c))
          /\ WF_vars(\E ok \in BOOLEAN : PersistRespond(c, ok))
          /\ WF_vars(\E ok \in BOOLEAN : BulkRespond(c, ok))
    /\ WF_vars(\E k \in 1..Len(loads), ok \in BOOLEAN : FetchRespond(k, ok))

SpecLive == Init /\ [][Next]_vars /\ Fairness

\* ================================================================ claims
IsOne(c) == call[c].kind = "one"
IsMany(c) == call[c].kind = "many"
OneDoneOn(c, node) == IsOne(c) /\ call[c].pc = "done" /\ NodeOf(call[c].loc) = node
\* the tail a get of the node would yield now
CachedTail(node) == Outcome(lastLocationsMap[node]).val
LoadsOf(ld, node) == {k \in 1..Len(ld) : ld[k].node = node}
\* the location of call c is newer than the tail X starts with when warm
NewOnX(c) == Timestamp(call[c].loc) > Timestamp(At(WarmTail, 1))

\* C1: when setVisualArea calls for locations of node X newer than its valid
\* cached tail, issued in the order of their timestamps, have all completed,
\* X's cached tail is the pair of the last two of them.
C1_ConcurrentFinalTail ==
    (/\ \A c \in Calls : OneDoneOn(c, "X") /\ NewOnX(c)
     /\ \A c, d \in Calls : c < d => Timestamp(call[c].loc) < Timestamp(call[d].loc))
    => CachedTail("X") = <<call[MaxCalls - 1].loc, call[MaxCalls].loc>>

\* C2: no two completed setVisualArea calls for different new locations of
\* one node computed their score from the same pre-fold tail (the same
\* replacement of the node's entry).
C2_NoSharedPreFoldTail ==
    \A c, d \in Calls :
        (/\ OneDoneOn(c, "X") /\ OneDoneOn(d, "X")
         /\ NewOnX(c) /\ NewOnX(d) /\ call[c].loc # call[d].loc)
        => call[c].ver1 # call[d].ver1

\* C3: the first setVisualArea call for a node of which the store returned no
\* pair of prior locations (the empty sequence, or one location: the load
\* resolves to undefined for both), run alone, does not fail.
C3_FirstCallOnEmptyNodeSucceeds ==
    (/\ IsOne(1)
     /\ \A d \in Calls : d > 1 => call[d].pc = "idle"
     /\ \A k \in LoadsOf(loads, NodeOf(call[1].loc)) :
            loads[k].outcome.st = "ok" /\ loads[k].outcome.val = Undefined)
    => call[1].pc # "failed"

\* C4: an area computed while the node has no valid pair is +infinity, a
\* finite area is the triangle of a tail of two locations and the new
\* location, and every persisted score is such an area.
AreaRule(area, tail, location) ==
    IF tail = Undefined THEN area = POSITIVE_INFINITY
    ELSE Len(tail) = 2 /\ area = turfArea(tail[1], tail[2], location)
C4_SentinelWithoutPair ==
    /\ \A c \in Calls :
          (IsOne(c) /\ call[c].area # Unscored)
              => AreaRule(call[c].area, call[c].tail1, call[c].loc)
    /\ \A c \in Calls : \A k \in 1..Len(call[c].bulk) :
          AreaRule(call[c].bulk[k].area, call[c].bulk[k].from, call[c].bulk[k].new)
    /\ \A l \in Locs : visualArea[l] # Unscored =>
          \E c \in Calls :
              \/ IsOne(c) /\ call[c].target = l /\ call[c].area = visualArea[l]
              \/ \E k \in 1..Len(call[c].bulk) :
                    call[c].bulk[k].loc = l /\ call[c].bulk[k].area = visualArea[l]
\* C4 witness: a score computed without a valid pair has been persisted
C4_Witness ==
    \E c \in Calls :
        /\ IsOne(c) /\ call[c].pc = "done" /\ call[c].tail1 = Undefined
        /\ visualArea[call[c].target] = POSITIVE_INFINITY

\* the locations of the k-th node of a setVisualAreas call, newest first
SortedGroup(c, k) == sortByTimestampDescending(call[c].groups[k])
BulkOf(c) == {call[c].bulk[k] : k \in 1..Len(call[c].bulk)}

\* C5: when setVisualAreas has completed, every location L[i], 1 <= i <= n-2,
\* of a node with the locations L0..Ln (newest first, n >= 3) has been
\* assigned the area of the triangle of L[i+1], L[i] and L[i-1].
C5_InteriorScores ==
    \A c \in Calls : (IsMany(c) /\ call[c].pc = "done") =>
        \A k \in 1..Len(call[c].groups) :
            LET L == SortedGroup(c, k)
                n == Len(L) - 1
            IN  n >= 3 =>
                    \A i \in 1..(n - 2) :
                        \E e \in BulkOf(c) :
                            /\ e.loc = At(L, i)
                            /\ e.area = turfArea(At(L, i + 1), At(L, i), At(L, i - 1))

\* C6: setVisualAreas never assigns a score to the two newest locations or to
\* the oldest location of a node of its input, in the bulk or in memory.
Endpoints(L) == {At(L, 0), At(L, Len(L) - 1)} \cup (IF Len(L) > 1 THEN {At(L, 1)} ELSE {})
C6_EndpointsUnscored ==
    /\ \A c \in Calls : IsMany(c) =>
          \A k \in 1..Len(call[c].groups) : \A e \in BulkOf(c) :
              e.loc \notin Endpoints(SortedGroup(c, k))
    /\ \A l \in Locs : memVisualArea[l] # Unscored =>
          \E c \in Calls : \E e \in BulkOf(c) : e.loc = l /\ e.area = memVisualArea[l]
\* C6 witness: a batch of one node with n >= 3 has scored a location
C6_Witness ==
    \E c \in Calls :
        /\ IsMany(c) /\ call[c].pc = "done" /\ call[c].bulk # <<>>
        /\ \E l \in Locs : memVisualArea[l] # Unscored

\* C7: the location a setVisualArea call persists its score onto is never the
\* location passed to the call.
C7_NeverOntoArgument ==
    \A c \in Calls : (IsOne(c) /\ call[c].target # 0) => call[c].target # call[c].loc

\* C8: a setVisualArea call replaces the node's entry only in the step in
\* which its persist succeeds; when its persist fails the call fails with the
\* store's error and the map is left as it was.
C8_Step(c) ==
    LET node == NodeOf(call[c].loc)
    IN  /\ (call[c].pc = "awaitPersist" /\ call'[c].pc = "failed") =>
              /\ call'[c].err = "StoreUnavailable"
              /\ version' = version
              /\ visualArea' = visualArea
              /\ lastLocationsMap' = lastLocationsMap
        /\ (call[c].pc = "awaitPersist" /\ call'[c].pc = "done") =>
              /\ visualArea'[call[c].target] = call[c].area
              /\ version'[node] = version[node] + 1
              /\ lastLocationsMap'[node].kind = "chain"
              /\ lastLocationsMap'[node].loc = call[c].loc
        /\ (call'[c] # call[c] /\ call'[c].kind = "one" /\ call[c].pc # "awaitPersist") =>
              version' = version
C8_SetOnlyAfterPersist == [][\A c \in Calls : C8_Step(c)]_vars
\* C8 witness: the persist of a setVisualArea call has failed
C8_Witness ==
    \E c \in Calls :
        IsOne(c) /\ call[c].pc = "failed" /\ call[c].target # 0
            /\ call[c].err = "StoreUnavailable"

\* C9: when the bulk of the only call issued, a setVisualAreas call, has
\* failed, the map is as it was before the call: empty.
C9_FailedBatchLeavesCache ==
    \A c \in Calls :
        (/\ IsMany(c) /\ call[c].pc = "failed" /\ call[c].err = "StoreUnavailable"
         /\ \A d \in Calls : d # c => call[d].pc = "idle")
        => \A n \in Nodes : lastLocationsMap[n].kind = "absent"

\* C10: the store fetch of a node's tail is issued at most once; the calls
\* that wait for the load of a node wait for that one fetch; a node with an
\* entry is never fetched again.
C10_State ==
    /\ \A n \in Nodes : Cardinality(LoadsOf(loads, n)) <= 1
    /\ \A c \in Calls :
          (call[c].pc = "awaitArea" /\ call[c].p.kind = "load")
              => LoadsOf(loads, NodeOf(call[c].loc)) = {call[c].p.id}
    /\ \A n \in Nodes : version[n] > 0 => lastLocationsMap[n].kind # "absent"
C10_Step ==
    \A n \in Nodes :
        lastLocationsMap[n].kind # "absent" =>
            /\ LoadsOf(loads', n) = LoadsOf(loads, n)
            /\ lastLocationsMap'[n].kind # "absent"
C10_SingleFlight == []C10_State /\ [][C10_Step]_vars
\* C10 witness: two calls wait for the same pending fetch
C10_Witness ==
    \E c, d \in Calls :
        /\ c # d
        /\ call[c].pc = "awaitArea" /\ call[d].pc = "awaitArea"
        /\ call[c].p.kind = "load" /\ call[d].p.kind = "load"
        /\ call[c].p.id = call[d].p.id
        /\ loads[call[c].p.id].outcome.st = "pending"

\* C11: when setVisualArea has been called twice in a row with the same new
\* location L on node X, whose tail was the valid pair (P, Q), X's cached
\* tail is (Q, L), as after the first call, and its two elements differ.
C11_RetryKeepsTail ==
    (/\ OneDoneOn(1, "X") /\ OneDoneOn(2, "X")
     /\ NewOnX(1) /\ call[2].loc = call[1].loc
     /\ call[1].tail1 = WarmTail
     /\ call[2].ver1 = call[1].ver1 + 1
     /\ version["X"] = call[2].ver1 + 1)
    => /\ CachedTail("X") = <<At(WarmTail, 1), call[1].loc>>
       /\ At(CachedTail("X"), 0) # At(CachedTail("X"), 1)

\* C12: when a setVisualArea(L) call that ran as the only call, on a node
\* whose tail was the valid pair (P, Q), has completed, the store holds one
\* score, the area of (P, Q, L) on Q, the node's cached tail is (Q, L), the
\* entry has been replaced once and the call has returned L.
C12_SingleFold ==
    (/\ IsOne(1) /\ call[1].pc = "done"
     /\ \A d \in Calls : d > 1 => call[d].pc = "idle")
    => LET L == call[1].loc
           P == At(call[1].tail1, 0)
           Q == At(call[1].tail1, 1)
       IN  /\ Len(call[1].tail1) = 2
           /\ visualArea = [l \in Locs |-> IF l = Q THEN turfArea(P, Q, L) ELSE Unscored]
           /\ CachedTail(NodeOf(L)) = <<Q, L>>
           /\ version[NodeOf(L)] = call[1].ver1 + 1
           /\ call[1].ret = <<L>>
\* C12 witness: a lone call for a new location of X has completed on the
\* tail X starts with
C12_Witness ==
    /\ OneDoneOn(1, "X") /\ NewOnX(1)
    /\ \A d \in Calls : d > 1 => call[d].pc = "idle"
    /\ call[1].tail1 = WarmTail
    /\ visualArea[At(WarmTail, 1)] # Unscored

\* C13: the seed tail that setVisualAreas installs for a node with at least
\* two locations in the batch is made of the node's two newest locations of
\* the batch.
C13_SeedIsNewestPair ==
    \A c \in Calls : IsMany(c) =>
        \A k \in 1..Len(call[c].seeded) :
            LET L == SortedGroup(c, k)
            IN  Len(L) >= 2 =>
                    {At(call[c].seeded[k], 0), At(call[c].seeded[k], 1)}
                        = {At(L, 0), At(L, 1)}

\* the node whose locations setVisualAreas call c is walking
WalkNode(c) == NodeOf(At(call[c].locations, 0))
\* in this step setVisualArea call d reads the entry of node n: the first
\* read when it is issued, the second when its area is known
ReadsEntry(d, n) ==
    \/ call[d].pc = "idle" /\ call'[d].kind = "one" /\ NodeOf(call'[d].loc) = n
    \/ /\ IsOne(d) /\ NodeOf(call[d].loc) = n
       /\ call[d].pc = "awaitArea"
       /\ call'[d].pc = "awaitPersist" \/ call'[d].err = "TypeError"
\* in this step setVisualArea call d replaces the entry of node n
ReplacesEntry(d, n) ==
    /\ IsOne(d) /\ NodeOf(call[d].loc) = n
    /\ call[d].pc = "awaitPersist" /\ call'[d].pc = "done"

\* C14: while a setVisualAreas call is walking a node (its seed is installed
\* and a fold of the node is still to come), no setVisualArea call reads or
\* replaces the entry of that node.
C14_Step ==
    \A c, d \in Calls :
        (IsMany(c) /\ call[c].pc = "fold")
            => ~ReadsEntry(d, WalkNode(c)) /\ ~ReplacesEntry(d, WalkNode(c))
C14_NoInterleavingInWalk == [][C14_Step]_vars

\* the node call c acts on in this step
ActNode(c) ==
    IF call[c].pc = "idle"
    THEN IF call'[c].kind = "one" THEN NodeOf(call'[c].loc)
         ELSE NodeOf(call'[c].groups[1][1])
    ELSE IF IsOne(c) THEN NodeOf(call[c].loc) ELSE WalkNode(c)
\* this step is a step for node n: of a call acting on n, of a bulk with a
\* score for n, or the answer to a fetch of n
Touched(n) ==
    \/ \E c \in Calls :
          /\ call'[c] # call[c]
          /\ \/ ActNode(c) = n
             \/ call[c].pc = "awaitBulk" /\ \E e \in BulkOf(c) : NodeOf(e.loc) = n
    \/ \E k \in 1..Len(loads) : loads'[k] # loads[k] /\ loads[k].node = n
\* the tail and the scores of a walk from index i that runs alone
RECURSIVE WalkAlone(_, _, _)
WalkAlone(tail, L, i) ==
    IF i >= Len(L) THEN [tail |-> tail, scores |-> <<>>]
    ELSE LET rest == WalkAlone(<<At(tail, 1), At(L, i)>>, L, i + 1)
         IN  [tail   |-> rest.tail,
              scores |-> <<[loc  |-> At(L, i - 1),
                            area |-> turfArea(At(tail, 0), At(tail, 1), At(L, i))]>>
                             \o rest.scores]
\* every other call is a setVisualArea call for another node than n
AloneOn(c, n) ==
    \A d \in Calls : d # c =>
        call[d].pc = "idle" \/ (IsOne(d) /\ NodeOf(call[d].loc) # n)

\* C15: a step for one node leaves the entry, the fetches, the tail and the
\* scores of every other node as they are; and a call that is the only one
\* on its node ends with the tail and the scores of a run alone, whatever
\* the calls on other nodes do.
C15_Frame ==
    \A n \in Nodes : ~Touched(n) =>
        /\ lastLocationsMap'[n] = lastLocationsMap[n]
        /\ version'[n] = version[n]
        /\ LoadsOf(loads', n) = LoadsOf(loads, n)
        /\ lastLocationsMap[n].kind # "absent" =>
               Outcome(lastLocationsMap[n])' = Outcome(lastLocationsMap[n])
        /\ \A l \in Locs : NodeOf(l) = n =>
               visualArea'[l] = visualArea[l] /\ memVisualArea'[l] = memVisualArea[l]
C15_Alone ==
    \A c \in Calls :
        /\ (IsOne(c) /\ call[c].pc = "done" /\ AloneOn(c, NodeOf(call[c].loc))) =>
              LET L == call[c].loc
                  Q == At(call[c].tail1, 1)
              IN  /\ CachedTail(NodeOf(L)) = <<Q, L>>
                  /\ \A l \in Locs : NodeOf(l) = NodeOf(L) =>
                         visualArea[l] = IF l = Q
                                         THEN turfArea(At(call[c].tail1, 0), Q, L)
                                         ELSE Unscored
        /\ (/\ IsMany(c) /\ call[c].pc \in {"awaitBulk", "done"}
            /\ Len(call[c].groups) = 1 /\ AloneOn(c, NodeOf(call[c].groups[1][1]))) =>
              LET L == SortedGroup(c, 1)
                  ref == WalkAlone(SeedTail(L), L, FirstFoldIndex)
              IN  /\ CachedTail(NodeOf(At(L, 0))) = ref.tail
                  /\ [k \in 1..Len(call[c].bulk) |->
                         [loc |-> call[c].bulk[k].loc, area |-> call[c].bulk[k].area]]
                        = ref.scores
                  /\ call[c].pc = "done" =>
                         \A l \in Locs : NodeOf(l) = NodeOf(At(L, 0)) =>
                             visualArea[l] = ApplyBulk(ref.scores,
                                                       [m \in Locs |-> Unscored])[l]
C16_State ==
    \A c \in Calls : IsMany(c) =>
        /\ call[c].pc \in {"awaitBulk", "done"} =>
               /\ call[c].g = Len(call[c].groups)
               /\ Len(call[c].seeded) = Len(call[c].groups)
        /\ call[c].pc # "done" => call[c].ret = <<>>
        /\ call[c].pc = "done" => call[c].ret = call[c].batch
C16_Step(c) ==
    /\ (call'[c].pc = "awaitBulk" /\ call[c].pc # "awaitBulk") =>
           call[c].pc \in {"idle", "seed", "fold"}
    /\ call[c].pc = "awaitBulk" => call'[c].pc \in {"awaitBulk", "done", "failed"}
    /\ call[c].pc \in {"done", "failed"} => call'[c] = call[c]
    /\ (call'[c] # call[c] /\ call'[c].kind = "many" /\ call[c].pc # "awaitBulk") =>
           visualArea' = visualArea
    /\ (call'[c] # call[c] /\ call'[c].kind = "many" /\ call'[c].pc = "done") =>
           /\ call[c].pc = "awaitBulk"
           /\ call'[c].bulk = call[c].bulk
           /\ visualArea' = ApplyBulk(call[c].bulk, visualArea)
    /\ \A l \in Locs : (call'[c].kind = "many" /\ memVisualArea'[l] # memVisualArea[l]
                          /\ call'[c] # call[c]) =>
           /\ Len(call'[c].bulk) = Len(call[c].bulk) + 1
           /\ call'[c].bulk[Len(call'[c].bulk)].loc = l
           /\ call'[c].bulk[Len(call'[c].bulk)].area = memVisualArea'[l]
C17_ScoreOntoMiddleVertex ==
    \A c \in Calls :
        (IsOne(c) /\ call[c].target # 0 /\ call[c].tail1 # Undefined) =>
            /\ call[c].tail2 = call[c].tail1
            /\ call[c].target = At(call[c].tail1, 1)

\* the entry of node n is a fetch that failed
FailedLoad(n) ==
    /\ lastLocationsMap[n].kind # "absent"
    /\ Outcome(lastLocationsMap[n]).st = "err"

\* C18: while the entry of a node is a failed fetch, no step issues a new
\* fetch for the node, and a step of a setVisualArea call for the node leaves
\* the entry as it is and can only take the failed fetch as the call's
\* promise or fail the call with the error of the fetch.
C18_Step ==
    \A n \in Nodes : FailedLoad(n) =>
        /\ LoadsOf(loads', n) = LoadsOf(loads, n)
        /\ \A c \in Calls :
              (call'[c] # call[c] /\ call'[c].kind = "one" /\ NodeOf(call'[c].loc) = n) =>
                  /\ lastLocationsMap'[n] = lastLocationsMap[n]
                  /\ call'[c].pc \in {"awaitArea", "failed"}
                  /\ call'[c].pc = "awaitArea" => call'[c].p = lastLocationsMap[n]
                  /\ call'[c].pc = "failed" =>
                         /\ call'[c].err = Outcome(lastLocationsMap[n]).err
                         /\ call'[c].target = 0
C18_FailedLoadMemoized == [][C18_Step]_vars
\* C18 witness: two setVisualArea calls for one node have failed with the
\* error of the node's only fetch
C18_Witness ==
    \E c, d \in Calls : \E n \in Nodes :
        /\ c < d /\ FailedLoad(n) /\ Cardinality(LoadsOf(loads, n)) = 1
        /\ \A e \in {c, d} :
              /\ IsOne(e) /\ NodeOf(call[e].loc) = n /\ call[e].pc = "failed"
              /\ call[e].err = "StoreUnavailable" /\ call[e].target = 0

\* the nodes of the input of setVisualAreas call c that have one location
OneLocationGroups(c) == {k \in 1..Len(call[c].groups) : Len(call[c].groups[k]) = 1}
FirstOneLocationGroup(c) ==
    CHOOSE k \in OneLocationGroups(c) : \A j \in OneLocationGroups(c) : k <= j

\* C19: a setVisualAreas call whose input has a node with one location never
\* executes its bulk and fails at that node with a TypeError, the entries of
\* the nodes before it replaced; for a node with two or three locations the
\* call installs the node's seed tail and adds no score of the node to its
\* bulk.
C19_State ==
    \A c \in Calls : IsMany(c) =>
        /\ OneLocationGroups(c) # {} =>
               /\ call[c].pc \notin {"awaitBulk", "done"}
               /\ call[c].pc = "failed" =>
                      /\ call[c].err = "TypeError"
                      /\ call[c].g = FirstOneLocationGroup(c)
                      /\ Len(call[c].seeded) = call[c].g - 1
                      /\ \A k \in 1..(call[c].g - 1) :
                             LET n == NodeOf(call[c].groups[k][1])
                             IN  lastLocationsMap[n].kind # "absent" /\ version[n] > 0
        /\ \A k \in 1..Len(call[c].groups) :
               /\ (\/ k < call[c].g
                   \/ k = call[c].g /\ call[c].pc = "fold"
                   \/ call[c].pc \in {"awaitBulk", "done"})
                      => k <= Len(call[c].seeded)
               /\ (k <= Len(call[c].seeded) /\ Len(call[c].groups[k]) \in {2, 3}) =>
                      /\ call[c].seeded[k] = SeedTail(SortedGroup(c, k))
                      /\ \A e \in BulkOf(c) :
                             NodeOf(e.loc) # NodeOf(call[c].groups[k][1])
C19_Step(c) ==
    Len(call'[c].seeded) = Len(call[c].seeded) + 1 =>
        LET lastLocations == call'[c].seeded[Len(call'[c].seeded)]
        IN  lastLocationsMap'[NodeOf(At(lastLocations, 1))] = ResolvedPromise(lastLocations)
C19_ShortGroups == []C19_State /\ [][\A c \in Calls : C19_Step(c)]_vars
\* C19 witness: one call has failed at its second node, a node with one
\* location, and another has walked a node with two or three locations
C19_Witness ==
    \E c, d \in Calls :
        /\ IsMany(c) /\ call[c].pc = "failed" /\ call[c].err = "TypeError"
        /\ call[c].g = 2 /\ Len(call[c].seeded) = 1
        /\ IsMany(d) /\ call[d].pc = "awaitBulk" /\ call[d].bulk = <<>>
        /\ Len(call[d].groups[1]) \in {2, 3}

\* C20: every call that has been issued completes: it returns or it fails.
C20_EveryCallCompletes ==
    \A c \in Calls : (call[c].pc # "idle") ~> (call[c].pc \in {"done", "failed"})
\* C20 witness: every call has completed and X's tail is a tail chained on a
\* chained tail
C20_Witness ==
    /\ \A c \in Calls : call[c].pc \in {"done", "failed"}
    /\ \E c \in Calls : call[c].pc = "done"
    /\ lastLocationsMap["X"].kind = "chain"
    /\ lastLocationsMap["X"].parent.kind = "chain"

====
